---- MODULE Spec2Model ----
(***************************************************************************)
(* Model of eijiro-parser (src/eijiro-parser/src/lib.rs) and of the lookup *)
(* loop of the command line front end (src/src/main.rs).                   *)
(*                                                                         *)
(* A text is a sequence of Unicode code points.  UTF-8 bytes are produced  *)
(* by Utf8 where the code works on bytes (String ordering, fst keys,       *)
(* bincode).                                                               *)
(***************************************************************************)
EXTENDS Naturals, Sequences, FiniteSets, TLC

(***************************************************************************)
(* Characters                                                              *)
(***************************************************************************)
\* U+25A0, the entry marker of the three patterns
EntryMarker == 9632
\* U+25C6, the complement marker of the three patterns
CompMarker == 9670
SP == 32
COLON == 58
LBRACE == 123
RBRACE == 125
NL == 10
CR == 13

Min(S) == CHOOSE x \in S : \A y \in S : x <= y
Max(S) == CHOOSE x \in S : \A y \in S : x >= y

\* the sequences of ss, one after the other
RECURSIVE Flatten(_)
Flatten(ss) == IF ss = << >> THEN << >> ELSE Head(ss) \o Flatten(Tail(ss))

\* t[i..j], empty when j < i
Sub(t, i, j) == IF j < i THEN << >> ELSE SubSeq(t, i, j)

(***************************************************************************)
(* The character classes and sub-patterns of the three regular expressions *)
(***************************************************************************)
\* the class "neither marker" accepts c
NotMarker(c) == c # EntryMarker /\ c # CompMarker

\* the class "any character" accepts c (any but a line feed)
Dot(c) == c # NL

\* a greedy run of NotMarker started at i: the last position of the run,
\* i-1 when the run is empty
RunEnd(t, i) ==
    LET stops == {k \in i..Len(t) : ~NotMarker(t[k])}
    IN  IF stops = {} THEN Len(t) ELSE Min(stops) - 1

\* CompMarker followed by one or more NotMarker matches at i
CompAt(t, i) == i + 1 <= Len(t) /\ t[i] = CompMarker /\ NotMarker(t[i + 1])

\* zero or more of (CompMarker, one or more NotMarker) started at i, greedy:
\* the last position matched, i-1 when there is no iteration
RECURSIVE CompsEnd(_, _)
CompsEnd(t, i) ==
    IF CompAt(t, i) THEN CompsEnd(t, RunEnd(t, i + 1) + 1) ELSE i - 1

\* " : " is at i
SepAt(t, i) ==
    i + 2 <= Len(t) /\ t[i] = SP /\ t[i + 1] = COLON /\ t[i + 2] = SP

\* parse_complements: every non-overlapping match of COMPLEMENT, in order.
\* COMPLEMENT is: CompMarker, then group 1 = one or more NotMarker.
RECURSIVE ComplementsFrom(_, _)
ComplementMatched(t, i, e) ==
    <<[body |-> Sub(t, i + 1, e)]>> \o ComplementsFrom(t, e + 1)

ComplementsFrom(t, i) ==
    IF i > Len(t) THEN << >>
    ELSE IF CompAt(t, i) THEN ComplementMatched(t, i, RunEnd(t, i + 1))
    ELSE ComplementsFrom(t, i + 1)

parse_complements(t) == ComplementsFrom(t, 1)

\* parse_examples: every non-overlapping match of EXAMPLE, in order.
\* EXAMPLE is: EntryMarker, then group 1 = one or more NotMarker, then
\* optionally group "complements" = one or more of (CompMarker, one or more
\* NotMarker).
ExampleAt(t, i) == i + 1 <= Len(t) /\ t[i] = EntryMarker /\ NotMarker(t[i + 1])

\* a bug: the complements of an example are looked for in the whole rest of
\* the text, not in the example's own match
ExampleOf_RestComplements(t, i, se, ce) ==
    [sentence    |-> Sub(t, i + 1, se),
     complements |-> parse_complements(Sub(t, se + 1, Len(t)))]

\* the example matched at i: its sentence ends at se, its complements at ce
ExampleOf(t, i, se, ce) ==
    [sentence    |-> Sub(t, i + 1, se),
     complements |-> parse_complements(Sub(t, se + 1, ce))]

RECURSIVE ExamplesFrom(_, _)
ExampleMatched(t, i, se, ce) ==
    <<ExampleOf(t, i, se, ce)>> \o ExamplesFrom(t, ce + 1)

ExampleSentence(t, i, se) == ExampleMatched(t, i, se, CompsEnd(t, se + 1))

ExamplesFrom(t, i) ==
    IF i > Len(t) THEN << >>
    ELSE IF ExampleAt(t, i) THEN ExampleSentence(t, i, RunEnd(t, i + 1))
    ELSE ExamplesFrom(t, i + 1)

parse_examples(t) == ExamplesFrom(t, 1)

\* parse_field: the first match of RE (leftmost start, then the alternatives
\* in the order the pattern gives them).  RE is, in sequence:
\*   EntryMarker
\*   item:        one or more Dot, as few as possible
\*   optionally:  one or more SP, LBRACE, ident: one or more Dot, as many as
\*                possible, RBRACE
\*   SP COLON SP
\*   exp:         zero or more NotMarker
\*   complements: zero or more of (CompMarker, one or more NotMarker)
\*   examples:    zero or more of (EntryMarker, one or more Dot)
\* Everything after the separator can match the empty text, so a match
\* exists as soon as the separator is found.
\* the end of the run of spaces that starts at i (i-1 when there is none)
RECURSIVE SpacesEnd(_, _)
SpacesEnd(t, i) ==
    IF i <= Len(t) /\ t[i] = SP THEN SpacesEnd(t, i + 1) ELSE i - 1

\* the optional ident group started at i and followed by the separator: the
\* positions of the closing brace that work.  The greedy ident takes the
\* last of them.
IdentCloses(t, i) ==
    LET se == SpacesEnd(t, i)
    IN  IF se < i \/ se + 1 > Len(t) \/ t[se + 1] # LBRACE THEN {}
        ELSE {p \in (se + 3)..Len(t) :
                 /\ t[p] = RBRACE
                 /\ SepAt(t, p + 1)
                 /\ \A k \in (se + 2)..(p - 1) : Dot(t[k])}

\* the item ends at e (the lazy item has taken t[s+1..e]) and the rest of the
\* pattern matches from e+1
ItemEndOk(t, s, e) ==
    /\ \A k \in (s + 1)..e : Dot(t[k])
    /\ (IdentCloses(t, e + 1) # {} \/ SepAt(t, e + 1))

\* the item ends of the match that starts at s
ItemEnds(t, s) == {e \in (s + 1)..Len(t) : ItemEndOk(t, s, e)}

\* a bug: the pattern is anchored at the start of the line
MatchStarts_Anchored(t) ==
    {s \in {1} : s <= Len(t) /\ t[s] = EntryMarker /\ ItemEnds(t, s) # {}}

\* the starts of a match
MatchStarts(t) == {s \in 1..Len(t) : t[s] = EntryMarker /\ ItemEnds(t, s) # {}}

\* a greedy run of Dot started at i: its last position
DotEnd(t, i) ==
    LET stops == {k \in i..Len(t) : ~Dot(t[k])}
    IN  IF stops = {} THEN Len(t) ELSE Min(stops) - 1

\* The capture groups of RE on t for the match that starts at s, found
\* from left to right:
\*   e      the last position of the item (the lazy item ends as early as the
\*          rest allows)
\*   closes the closing braces the ident group can end at (none: the group
\*          does not take part in the match)
\*   ident  the ident, q the last position of the separator
\*   xe     the last position of exp, ce the last position of complements
Groups(t, s, e, ident, q, xe, ce) ==
    [item        |-> Sub(t, s + 1, e),
     ident       |-> ident,
     exp         |-> Sub(t, q + 1, xe),
     complements |-> Sub(t, xe + 1, ce),
     examples    |-> IF ce + 2 <= Len(t) /\ t[ce + 1] = EntryMarker
                           /\ Dot(t[ce + 2])
                     THEN Sub(t, ce + 1, DotEnd(t, ce + 2))
                     ELSE << >>]

AfterExp(t, s, e, ident, q, xe) ==
    Groups(t, s, e, ident, q, xe, CompsEnd(t, xe + 1))

AfterSeparator(t, s, e, ident, q) ==
    AfterExp(t, s, e, ident, q, RunEnd(t, q + 1))

AfterItem(t, s, e, closes) ==
    IF closes # {}
    THEN AfterSeparator(t, s, e,
                        <<Sub(t, SpacesEnd(t, e + 1) + 2, Max(closes) - 1)>>,
                        Max(closes) + 3)
    ELSE AfterSeparator(t, s, e, << >>, e + 3)

ItemEndsAt(t, s, e) == AfterItem(t, s, e, IdentCloses(t, e + 1))

Captures(t, s) == ItemEndsAt(t, s, Min(ItemEnds(t, s)))

\* the value parse_field returns for the capture groups cap; Option<String>
\* is a sequence of at most one text
FieldOfCaptures(cap) ==
    [ok    |-> TRUE,
     key   |-> cap.item,
     field |-> [ident       |-> cap.ident,
                explanation |-> [body        |-> cap.exp,
                                 complements |->
                                     parse_complements(cap.complements)],
                examples    |-> parse_examples(cap.examples)]]

\* RE.captures(text): the leftmost match, or the error
FirstMatch(t, starts) ==
    IF starts = {}
    THEN [ok |-> FALSE, err |-> "Invalid field format"]
    ELSE FieldOfCaptures(Captures(t, Min(starts)))

parse_field(t) == FirstMatch(t, MatchStarts(t))

(***************************************************************************)
(* String and the derived orderings.  A String compares as its UTF-8       *)
(* bytes, a Vec element by element and then by length, an Option with None *)
(* first, a struct field by field in declaration order.                    *)
(***************************************************************************)
Utf8Char(c) ==
    IF c < 128 THEN <<c>>
    ELSE IF c < 2048 THEN <<192 + (c \div 64), 128 + (c % 64)>>
    ELSE <<224 + (c \div 4096), 128 + ((c \div 64) % 64), 128 + (c % 64)>>

Utf8(t) == Flatten([i \in 1..Len(t) |-> Utf8Char(t[i])])

\* Ordering of two byte sequences: "Less", "Equal" or "Greater"
RECURSIVE CmpBytes(_, _)
CmpBytes(a, b) ==
    IF a = << >> THEN (IF b = << >> THEN "Equal" ELSE "Less")
    ELSE IF b = << >> THEN "Greater"
    ELSE IF Head(a) < Head(b) THEN "Less"
    ELSE IF Head(a) > Head(b) THEN "Greater"
    ELSE CmpBytes(Tail(a), Tail(b))

CmpString(a, b) == CmpBytes(Utf8(a), Utf8(b))

\* the first ordering that is not Equal
Then(o, p) == IF o # "Equal" THEN o ELSE p

CmpOption(a, b) ==
    IF a = << >> THEN (IF b = << >> THEN "Equal" ELSE "Less")
    ELSE IF b = << >> THEN "Greater"
    ELSE CmpString(a[1], b[1])

CmpComplement(a, b) == CmpString(a.body, b.body)

RECURSIVE CmpComplements(_, _)
CmpComplements(a, b) ==
    IF a = << >> THEN (IF b = << >> THEN "Equal" ELSE "Less")
    ELSE IF b = << >> THEN "Greater"
    ELSE Then(CmpComplement(Head(a), Head(b)), CmpComplements(Tail(a), Tail(b)))

CmpExplanation(a, b) ==
    Then(CmpString(a.body, b.body), CmpComplements(a.complements, b.complements))

CmpExample(a, b) ==
    Then(CmpString(a.sentence, b.sentence),
         CmpComplements(a.complements, b.complements))

RECURSIVE CmpExamples(_, _)
CmpExamples(a, b) ==
    IF a = << >> THEN (IF b = << >> THEN "Equal" ELSE "Less")
    ELSE IF b = << >> THEN "Greater"
    ELSE Then(CmpExample(Head(a), Head(b)), CmpExamples(Tail(a), Tail(b)))

CmpField(a, b) ==
    Then(CmpOption(a.ident, b.ident),
         Then(CmpExplanation(a.explanation, b.explanation),
              CmpExamples(a.examples, b.examples)))

CmpNat(a, b) == IF a < b THEN "Less" ELSE IF a > b THEN "Greater" ELSE "Equal"

\* a bug: the entries are ordered by headword and line number only
CmpEntry_KeyThenLine(a, b) ==
    Then(CmpString(a.k, b.k), CmpNat(a.line_no, b.line_no))

\* the ordering of the tuples (String, Field, usize) of tmp
CmpEntry(a, b) ==
    Then(CmpString(a.k, b.k),
         Then(CmpField(a.f, b.f), CmpNat(a.line_no, b.line_no)))

\* x put into the sorted sequence s
RECURSIVE Insert(_, _)
Insert(x, s) ==
    IF s = << >> THEN <<x>>
    ELSE IF CmpEntry(x, Head(s)) = "Less" THEN <<x>> \o s
    ELSE <<Head(s)>> \o Insert(x, Tail(s))

\* a bug: tmp is left in input order
sort_Missing(s) == s

\* tmp.sort()
RECURSIVE sort(_)
sort(s) == IF s = << >> THEN << >> ELSE Insert(Head(s), sort(Tail(s)))

(***************************************************************************)
(* str::lines: the text split at line feeds, a carriage return before a    *)
(* line feed dropped, no empty line for a text that ends in a line feed.   *)
(***************************************************************************)
StripCR(l) ==
    IF l # << >> /\ l[Len(l)] = CR THEN Sub(l, 1, Len(l) - 1) ELSE l

RECURSIVE lines(_)
lines(t) ==
    IF t = << >> THEN << >>
    ELSE LET feeds == {i \in 1..Len(t) : t[i] = NL}
         IN  IF feeds = {} THEN <<t>>
             ELSE <<StripCR(Sub(t, 1, Min(feeds) - 1))>>
                      \o lines(Sub(t, Min(feeds) + 1, Len(t)))

(***************************************************************************)
(* parse, first statement: every line through parse_field, with its        *)
(* 0-based number; the first error ends the collection.                    *)
(***************************************************************************)
\* the positions of the results rs that are errors
Rejected(rs) == {i \in 1..Len(rs) : ~rs[i].ok}

\* the error of line i (the first line is line 0)
LineError(rs, i) == [ok |-> FALSE, line_no |-> i - 1, err |-> rs[i].err]

Entries(rs) ==
    [ok  |-> TRUE,
     tmp |-> [i \in 1..Len(rs) |->
                 [k |-> rs[i].key, f |-> rs[i].field, line_no |-> i - 1]]]

\* a bug: the error reported is the last one
Collected_LastError(rs, bad) ==
    IF bad # {} THEN LineError(rs, Max(bad)) ELSE Entries(rs)

\* collect::<Result<Vec<_>>>() on the results rs, bad the errors among them
Collected(rs, bad) ==
    IF bad # {} THEN LineError(rs, Min(bad)) ELSE Entries(rs)

CollectResults(rs) == Collected(rs, Rejected(rs))

collect(ls) == CollectResults([i \in 1..Len(ls) |-> parse_field(ls[i])])

(***************************************************************************)
(* fst::MapBuilder and fst::Map.  A map is the sequence of its             *)
(* <<key bytes, value>> pairs in key order, which is the order a stream    *)
(* yields them in.                                                         *)
(***************************************************************************)
\* MapBuilder::insert: a key that is not after the last one is refused
\* (a duplicate key, or a key out of order)
insert(m, key, val) ==
    IF m # << >> /\ CmpBytes(m[Len(m)][1], key) # "Less"
    THEN [ok |-> FALSE,
          err |-> IF m[Len(m)][1] = key THEN "DuplicateKey" ELSE "OutOfOrder"]
    ELSE [ok |-> TRUE, map |-> Append(m, <<key, val>>)]

(***************************************************************************)
(* bincode: an integer length or index is 8 bytes, least significant       *)
(* first; a String is its byte length and its UTF-8 bytes; a Vec is its    *)
(* length and its elements; an Option is a tag byte and the value; a       *)
(* struct is its fields.                                                   *)
(***************************************************************************)
RECURSIVE LittleEndian(_, _)
LittleEndian(n, w) ==
    IF w = 0 THEN << >> ELSE <<n % 256>> \o LittleEndian(n \div 256, w - 1)

U64(n) == LittleEndian(n, 8)

EncString(t) == U64(Len(Utf8(t))) \o Utf8(t)

EncComplements(cs) ==
    U64(Len(cs)) \o Flatten([i \in 1..Len(cs) |-> EncString(cs[i].body)])

EncExample(e) == EncString(e.sentence) \o EncComplements(e.complements)

EncOption(o) == IF o = << >> THEN <<0>> ELSE <<1>> \o EncString(o[1])

\* a bug: the tag of the Option is not written
EncField_NoTag(f) ==
    (IF f.ident = << >> THEN << >> ELSE EncString(f.ident[1]))
        \o EncString(f.explanation.body)
        \o EncComplements(f.explanation.complements)
        \o U64(Len(f.examples))
        \o Flatten([i \in 1..Len(f.examples) |-> EncExample(f.examples[i])])

EncField(f) ==
    EncOption(f.ident)
        \o EncString(f.explanation.body)
        \o EncComplements(f.explanation.complements)
        \o U64(Len(f.examples))
        \o Flatten([i \in 1..Len(f.examples) |-> EncExample(f.examples[i])])

EncGroup(g) == U64(Len(g)) \o Flatten([i \in 1..Len(g) |-> EncField(g[i])])

EncFields(fs) == U64(Len(fs)) \o Flatten([i \in 1..Len(fs) |-> EncGroup(fs[i])])

EncBytes(b) == U64(Len(b)) \o b

\* the bytes of a map (into_fst().into_inner()): the library's header (its
\* format version and the type of the automaton), the automaton, here one
\* record per key in key order, and the number of keys at the end
FstHeader == U64(3) \o U64(0)

FstBytes(m) ==
    FstHeader
        \o Flatten([i \in 1..Len(m) |-> EncBytes(m[i][1]) \o U64(m[i][2])])
        \o U64(Len(m))

serialize(d) == EncBytes(FstBytes(d.keys)) \o EncFields(d.fields)

\* Reading.  A reader returns [ok, val, next]: next is the position after
\* what was read; ok is FALSE when the buffer ends too early or holds a byte
\* that cannot be there.
Fail == [ok |-> FALSE, val |-> << >>, next |-> 0]

Read(v, n) == [ok |-> TRUE, val |-> v, next |-> n]

\* the ? operator: the error of r, or what F makes of r
AndThen(r, F(_)) == IF r.ok THEN F(r) ELSE Fail

\* the integer of 8 bytes, least significant first.  An integer of more than
\* three bytes stands as 2^24: as a length or a count it is more than any
\* buffer of the model holds, whatever its value.
FromLittleEndian(b) ==
    IF \E k \in 4..Len(b) : b[k] # 0 THEN 16777216
    ELSE b[1] + 256 * b[2] + 65536 * b[3]

DecU64(b, i) ==
    IF i + 7 > Len(b) THEN Fail
    ELSE Read(FromLittleEndian(Sub(b, i, i + 7)), i + 8)

\* the number of bytes of the character that starts with the byte x, 0 when
\* no character starts with it
Utf8Width(x) ==
    IF x < 128 THEN 1
    ELSE IF x >= 194 /\ x < 224 THEN 2
    ELSE IF x >= 224 /\ x < 240 THEN 3
    ELSE 0

\* the character of the n bytes at the head of b
Utf8Decode(b, n) ==
    IF n = 1 THEN b[1]
    ELSE IF n = 2 THEN (b[1] - 192) * 64 + (b[2] - 128)
    ELSE (b[1] - 224) * 4096 + (b[2] - 128) * 64 + (b[3] - 128)

\* the character c before the text rest, when there is one
Utf8Cons(c, rest) == IF rest = << >> THEN << >> ELSE << <<c>> \o rest[1] >>

\* String::from_utf8 on b: <<the text>>, or << >> when b is not UTF-8
RECURSIVE FromUtf8(_)
RECURSIVE FromUtf8Char(_, _)
FromUtf8Char(b, n) ==
    IF \/ n = 0
       \/ n > Len(b)
       \/ \E k \in 2..n : b[k] < 128 \/ b[k] >= 192
       \/ (n = 3 /\ Utf8Decode(b, n) < 2048)
    THEN << >>
    ELSE Utf8Cons(Utf8Decode(b, n), FromUtf8(Sub(b, n + 1, Len(b))))

FromUtf8(b) == IF b = << >> THEN << << >> >> ELSE FromUtf8Char(b, Utf8Width(b[1]))

\* a Vec<u8>: its length, then that many bytes
DecBytes(b, i) ==
    AndThen(DecU64(b, i), LAMBDA n :
        IF n.next + n.val - 1 > Len(b) THEN Fail
        ELSE Read(Sub(b, n.next, n.next + n.val - 1), n.next + n.val))

\* the text u decoded from bytes that end before next
DecText(u, next) == IF u = << >> THEN Fail ELSE Read(u[1], next)

DecString(b, i) ==
    AndThen(DecBytes(b, i), LAMBDA r : DecText(FromUtf8(r.val), r.next))

\* n complements from position i
RECURSIVE DecComplementsN(_, _, _)
DecComplementsN(b, i, n) ==
    IF n = 0 THEN Read(<< >>, i)
    ELSE AndThen(DecString(b, i), LAMBDA x :
         AndThen(DecComplementsN(b, x.next, n - 1), LAMBDA r :
         Read(<<[body |-> x.val]>> \o r.val, r.next)))

DecComplements(b, i) ==
    AndThen(DecU64(b, i), LAMBDA n : DecComplementsN(b, n.next, n.val))

DecExample(b, i) ==
    AndThen(DecString(b, i), LAMBDA x :
    AndThen(DecComplements(b, x.next), LAMBDA c :
    Read([sentence |-> x.val, complements |-> c.val], c.next)))

RECURSIVE DecExamplesN(_, _, _)
DecExamplesN(b, i, n) ==
    IF n = 0 THEN Read(<< >>, i)
    ELSE AndThen(DecExample(b, i), LAMBDA x :
         AndThen(DecExamplesN(b, x.next, n - 1), LAMBDA r :
         Read(<<x.val>> \o r.val, r.next)))

DecOption(b, i) ==
    IF i > Len(b) \/ b[i] > 1 THEN Fail
    ELSE IF b[i] = 0 THEN Read(<< >>, i + 1)
    ELSE AndThen(DecString(b, i + 1), LAMBDA x : Read(<<x.val>>, x.next))

DecField(b, i) ==
    AndThen(DecOption(b, i), LAMBDA id :
    AndThen(DecString(b, id.next), LAMBDA body :
    AndThen(DecComplements(b, body.next), LAMBDA cs :
    AndThen(DecU64(b, cs.next), LAMBDA n :
    AndThen(DecExamplesN(b, n.next, n.val), LAMBDA es :
    Read([ident       |-> id.val,
          explanation |-> [body |-> body.val, complements |-> cs.val],
          examples    |-> es.val],
         es.next))))))

RECURSIVE DecGroupN(_, _, _)
DecGroupN(b, i, n) ==
    IF n = 0 THEN Read(<< >>, i)
    ELSE AndThen(DecField(b, i), LAMBDA x :
         AndThen(DecGroupN(b, x.next, n - 1), LAMBDA r :
         Read(<<x.val>> \o r.val, r.next)))

RECURSIVE DecFieldsN(_, _, _)
DecFieldsN(b, i, n) ==
    IF n = 0 THEN Read(<< >>, i)
    ELSE AndThen(DecU64(b, i), LAMBDA len :
         AndThen(DecGroupN(b, len.next, len.val), LAMBDA g :
         AndThen(DecFieldsN(b, g.next, n - 1), LAMBDA r :
         Read(<<g.val>> \o r.val, r.next))))

DecFields(b, i) ==
    AndThen(DecU64(b, i), LAMBDA n : DecFieldsN(b, n.next, n.val))

\* n records of the automaton from position i
RECURSIVE FstRecordsN(_, _, _)
FstRecordsN(b, i, n) ==
    IF n = 0 THEN Read(<< >>, i)
    ELSE AndThen(DecBytes(b, i), LAMBDA k :
         AndThen(DecU64(b, k.next), LAMBDA v :
         AndThen(FstRecordsN(b, v.next, n - 1), LAMBDA r :
         Read(<< <<k.val, v.val>> >> \o r.val, r.next))))

\* the map of the records r, which must end where the number of keys starts
MapOf(r, end) ==
    IF ~r.ok \/ r.next # end THEN [ok |-> FALSE, map |-> << >>]
    ELSE [ok |-> TRUE, map |-> r.val]

\* Map::new: the bytes are refused when they are too few to hold the header
\* and the number of keys, when the header is not the library's, or when the
\* automaton does not end where the number of keys starts
MapNew(b) ==
    IF Len(b) < 24 \/ Sub(b, 1, 16) # FstHeader THEN [ok |-> FALSE, map |-> << >>]
    ELSE MapOf(FstRecordsN(Sub(b, 1, Len(b) - 8), 17,
                           FromLittleEndian(Sub(b, Len(b) - 7, Len(b)))),
               Len(b) - 7)

\* the Dict of the keys m and the groups fs read from the snapshot
Loaded(m, fs) ==
    IF ~m.ok THEN [kind |-> "Panic"]
    ELSE IF ~fs.ok THEN [kind |-> "Err"]
    ELSE [kind |-> "Ok", dict |-> [keys |-> m.map, fields |-> fs.val]]

VisitSeq(b, kb) ==
    IF ~kb.ok THEN [kind |-> "Err"]
    ELSE Loaded(MapNew(kb.val), DecFields(b, kb.next))

\* DictVisitor::visit_seq: the bytes of the keys, an error when they cannot
\* be read; Map::new on them, unwrapped; the fields, an error when they
\* cannot be read
deserialize(b) == VisitSeq(b, DecBytes(b, 1))

(***************************************************************************)
(* fst::automaton::Levenshtein and Map::search                             *)
(***************************************************************************)
Min3(a, b, c) == Min({a, b, c})

\* the number of insertions, deletions and substitutions of one character
\* that turn a into b
RECURSIVE Distance(_, _)
Distance(a, b) ==
    IF a = << >> THEN Len(b)
    ELSE IF b = << >> THEN Len(a)
    ELSE IF Head(a) = Head(b) THEN Distance(Tail(a), Tail(b))
    ELSE 1 + Min3(Distance(Tail(a), b), Distance(a, Tail(b)),
                  Distance(Tail(a), Tail(b)))

\* a bug: the automaton accepts a key that starts with the query
Accepts_Prefix(query, n, key) ==
    /\ FromUtf8(key) # << >>
    /\ Len(FromUtf8(key)[1]) >= Len(query)
    /\ Distance(query, Sub(FromUtf8(key)[1], 1, Len(query))) <= n

\* the automaton Levenshtein::new(query, n) accepts the key
Accepts(query, n, key) ==
    FromUtf8(key) # << >> /\ Distance(query, FromUtf8(key)[1]) <= n

\* keys.search(matcher).into_stream(): the pairs whose key the automaton
\* accepts, in key order
search(m, query, n) == SelectSeq(m, LAMBDA e : Accepts(query, n, e[1]))

(***************************************************************************)
(* State                                                                   *)
(***************************************************************************)
VARIABLES
    pc,        \* where the run is
    line,      \* the argument of parse_field
    form,      \* <<the parts line was written from>>, << >> for any other line
    parsed,    \* what parse_field returned
    text,      \* the argument of parse: the corpus
    tmp,       \* parse: the sorted entries the loop has still to take
    map,       \* parse: the MapBuilder, the pairs inserted so far
    prev_key,  \* parse: Option<String>
    fields,    \* parse: Vec<Vec<Field>>
    origins,   \* history: the line number of every Field of fields
    error,     \* << >>, or <<the error parse returned>>
    dict,      \* << >>, or <<the Dict parse returned>>
    bytes,     \* the snapshot: bincode::serialize(&dict), as stored
    damaged,   \* the stored snapshot is not what serialize wrote
    loaded,    \* what bincode::deserialize did with the snapshot
    word,      \* the word looked up
    found      \* what the lookup loop of main went through

vars == <<pc, line, form, parsed, text, tmp, map, prev_key, fields, origins,
          error, dict, bytes, damaged, loaded, word, found>>

fieldVars == <<line, form, parsed>>
parseVars == <<text, tmp, map, prev_key, fields, origins, error, dict>>
storeVars == <<bytes, damaged, loaded>>
lookupVars == <<word, found>>

\* the variables of parse, of the snapshot and of the lookup before they run
IdlePipeline ==
    /\ text = << >> /\ tmp = << >> /\ map = << >> /\ prev_key = << >>
    /\ fields = << >> /\ origins = << >> /\ error = << >> /\ dict = << >>
    /\ bytes = << >> /\ damaged = FALSE /\ loaded = [kind |-> "None"]
    /\ word = << >> /\ found = [kind |-> "None"]

(***************************************************************************)
(* parse_field on one line                                                 *)
(***************************************************************************)
MaxChunks == 6

Chunks == {<<EntryMarker>>, <<CompMarker>>, <<SP, COLON, SP>>,
           <<SP, LBRACE>>, <<RBRACE>>, <<97>>, <<SP>>}

ParseFieldStep ==
    /\ pc = "line"
    /\ parsed' = parse_field(line)
    /\ pc' = "parsed"
    /\ UNCHANGED <<line, form, parseVars, storeVars, lookupVars>>

InitField ==
    /\ pc = "line"
    /\ \E n \in 0..MaxChunks : \E cs \in [1..n -> Chunks] : line = Flatten(cs)
    /\ form = << >>
    /\ parsed = "none"
    /\ IdlePipeline

NextField == ParseFieldStep

SpecField == InitField /\ [][NextField]_vars

(***************************************************************************)
(* parse, the snapshot, the lookup                                         *)
(***************************************************************************)
MaxLines == 3

\* the lines a corpus is written from: the headwords b, a (three lines: one
\* plain, one with an ident, one with a complement and an example with a
\* complement, a character of two bytes in it), ab, and one that is a
\* character of three bytes; a line without a marker; an empty line
LinePool ==
    { <<EntryMarker, 98, SP, COLON, SP, 120>>,
      <<EntryMarker, 97, SP, COLON, SP, 121>>,
      <<EntryMarker, 97, SP, LBRACE, 110, RBRACE, SP, COLON, SP, 120>>,
      <<EntryMarker, 97, SP, COLON, SP, 120, CompMarker, 233,
        EntryMarker, 100, CompMarker, 101>>,
      <<EntryMarker, 97, 98, SP, COLON, SP, 120>>,
      <<EntryMarker, CompMarker, SP, COLON, SP, 120>>,
      <<97, SP, COLON, SP, 120>>,
      << >> }

\* the words looked up
Words == {<<97>>, <<98>>, <<97, 98>>, <<98, 97>>, << >>}

\* the lines of ls, each ended by a line feed, the last one only if fin
RECURSIVE Join(_, _)
Join(ls, fin) ==
    IF ls = << >> THEN << >>
    ELSE Head(ls) \o (IF Len(ls) > 1 \/ fin THEN <<NL>> ELSE << >>)
             \o Join(Tail(ls), fin)

Init ==
    /\ pc = "start"
    /\ \E n \in 0..MaxLines : \E ls \in [1..n -> LinePool] : \E fin \in BOOLEAN :
           text = Join(ls, fin)
    /\ line = << >> /\ form = << >> /\ parsed = "none"
    /\ tmp = << >> /\ map = << >> /\ prev_key = << >>
    /\ fields = << >> /\ origins = << >> /\ error = << >> /\ dict = << >>
    /\ bytes = << >> /\ damaged = FALSE /\ loaded = [kind |-> "None"]
    /\ word = << >> /\ found = [kind |-> "None"]

\* parse up to the loop: the lines collected, or the first error returned;
\* tmp sorted
ParseLines ==
    /\ pc = "start"
    /\ LET r == collect(lines(text))
       IN  IF r.ok
           THEN /\ tmp' = sort(r.tmp)
                /\ pc' = "loop"
                /\ error' = error
           ELSE /\ error' = <<[kind |-> "line", line_no |-> r.line_no, err |-> r.err]>>
                /\ pc' = "failed"
                /\ tmp' = tmp
    /\ UNCHANGED <<fieldVars, text, map, prev_key, fields, origins, dict,
                   storeVars, lookupVars>>

\* new_key: there is no previous headword, or it differs from k
new_key(prev, k) == prev = << >> \/ prev[1] # k

\* a bug: the Field goes to the first group
push_First(fs, x) == [fs EXCEPT ![1] = Append(@, x)]

\* fields.last_mut().unwrap().push(f)
push(fs, x) == [fs EXCEPT ![Len(fs)] = Append(@, x)]

\* one turn of the loop of parse: the next entry of tmp
LoopStep ==
    /\ pc = "loop"
    /\ tmp # << >>
    /\ LET e == Head(tmp)
           r == insert(map, Utf8(e.k), Len(fields))
       IN  IF new_key(prev_key, e.k)
           THEN IF r.ok
                THEN /\ map' = r.map
                     /\ fields' = push(Append(fields, << >>), e.f)
                     /\ origins' = push(Append(origins, << >>), e.line_no)
                     /\ prev_key' = <<e.k>>
                     /\ tmp' = Tail(tmp)
                     /\ UNCHANGED <<pc, error>>
                ELSE /\ error' = <<[kind |-> "insert", line_no |-> e.line_no,
                                    err |-> r.err]>>
                     /\ pc' = "failed"
                     /\ UNCHANGED <<map, fields, origins, prev_key, tmp>>
           ELSE /\ fields' = push(fields, e.f)
                /\ origins' = push(origins, e.line_no)
                /\ tmp' = Tail(tmp)
                /\ UNCHANGED <<pc, error, map, prev_key>>
    /\ UNCHANGED <<fieldVars, text, dict, storeVars, lookupVars>>

\* the loop is over: Ok(Dict { keys: map.into_map(), fields })
Finish ==
    /\ pc = "loop"
    /\ tmp = << >>
    /\ dict' = <<[keys |-> map, fields |-> fields]>>
    /\ pc' = "built"
    /\ UNCHANGED <<fieldVars, text, tmp, map, prev_key, fields, origins, error,
                   storeVars, lookupVars>>

\* main, no snapshot yet: the Dict parsed is serialized and stored
Save ==
    /\ pc = "built"
    /\ bytes' = serialize(dict[1])
    /\ pc' = "saved"
    /\ UNCHANGED <<fieldVars, parseVars, damaged, loaded, lookupVars>>

\* the stored snapshot is damaged, in one of these ways:
\*   "header"  a byte of the header of the keys is changed
\*   "keys"    the keys are cut to their header, their length with them
\*   "count"   the number of groups is one more than the groups stored
\*   "cut"     the last byte is lost
\*   "empty"   everything is lost
Damages == {"header", "keys", "count", "cut", "empty"}

Damaged(b, how) ==
    LET kb   == DecBytes(b, 1)
        rest == Sub(b, kb.next, Len(b))
    IN  CASE how = "header" -> [b EXCEPT ![9] = 255]
          [] how = "keys"   -> EncBytes(Sub(kb.val, 1, 16)) \o rest
          [] how = "count"  -> Sub(b, 1, kb.next - 1)
                                   \o U64(DecU64(b, kb.next).val + 1)
                                   \o Sub(b, kb.next + 8, Len(b))
          [] how = "cut"    -> Sub(b, 1, Len(b) - 1)
          [] how = "empty"  -> << >>

Damage ==
    /\ pc = "saved"
    /\ ~damaged
    /\ \E how \in Damages : bytes' = Damaged(bytes, how)
    /\ damaged' = TRUE
    /\ UNCHANGED <<pc, fieldVars, parseVars, loaded, lookupVars>>

\* main, a snapshot is there: bincode::deserialize on it
Load ==
    /\ pc = "saved"
    /\ loaded' = deserialize(bytes)
    /\ pc' = "loaded"
    /\ UNCHANGED <<fieldVars, parseVars, bytes, damaged, lookupVars>>

EditBudget == 0

\* the loop of main over the stream of matches: every match with its group,
\* dict.fields[idx]; an idx that is no position of fields ends the program
lookup(d, w) ==
    LET ms == search(d.keys, w, EditBudget)
    IN  IF \E i \in 1..Len(ms) : ms[i][2] + 1 > Len(d.fields)
        THEN [kind |-> "Panic"]
        ELSE [kind    |-> "Ok",
              matches |-> [i \in 1..Len(ms) |->
                              [item  |-> FromUtf8(ms[i][1])[1],
                               idx   |-> ms[i][2],
                               group |-> d.fields[ms[i][2] + 1]]]]

\* main, after the Dict is there (parsed and stored, or loaded): the lookup
Lookup ==
    /\ \/ pc = "saved" /\ ~damaged
       \/ pc = "loaded" /\ loaded.kind = "Ok"
    /\ \E w \in Words :
           /\ word' = w
           /\ found' = lookup(IF pc = "saved" THEN dict[1] ELSE loaded.dict, w)
    /\ pc' = IF pc = "saved" THEN "found" ELSE "found again"
    /\ UNCHANGED <<fieldVars, parseVars, storeVars>>

Next == ParseLines \/ LoopStep \/ Finish \/ Save \/ Damage \/ Load \/ Lookup

Spec == Init /\ [][Next]_vars

(***************************************************************************)
(* parse_field on a line written from its parts, as the line format gives  *)
(* them: the headword, the optional ident in braces, the separator, the    *)
(* explanation, then the segments, each a marker and its text.             *)
(***************************************************************************)
MaxSegs == 5

\* the texts of the parts: no marker, no brace, no separator in them
Texts == {<<97>>, <<98, SP, 99>>}

Segs == UNION {[1..n -> {"comp", "ex"} \X Texts] : n \in 0..MaxSegs}

Forms == [headword : Texts, ident : {<< >>} \cup {<<x>> : x \in Texts},
          body : Texts, segs : Segs]

RECURSIVE RenderSegs(_)
RenderSegs(segs) ==
    IF segs = << >> THEN << >>
    ELSE <<IF Head(segs)[1] = "comp" THEN CompMarker ELSE EntryMarker>>
             \o Head(segs)[2] \o RenderSegs(Tail(segs))

Render(f) ==
    <<EntryMarker>> \o f.headword
        \o (IF f.ident = << >> THEN << >>
            ELSE <<SP, LBRACE>> \o f.ident[1] \o <<RBRACE>>)
        \o <<SP, COLON, SP>> \o f.body \o RenderSegs(f.segs)

InitForm ==
    /\ pc = "line"
    /\ \E f \in Forms : form = <<f>> /\ line = Render(f)
    /\ parsed = "none"
    /\ IdlePipeline

SpecForm == InitForm /\ [][NextField]_vars

(***************************************************************************)
(* The claims about parse_field                                            *)
(***************************************************************************)
\* the complement segments at the head of segs, as complements
RECURSIVE LeadingComps(_)
LeadingComps(segs) ==
    IF segs = << >> \/ Head(segs)[1] # "comp" THEN << >>
    ELSE <<[body |-> Head(segs)[2]]>> \o LeadingComps(Tail(segs))

\* segs without the complement segments at its head
RECURSIVE AfterComps(_)
AfterComps(segs) ==
    IF segs = << >> \/ Head(segs)[1] # "comp" THEN segs
    ELSE AfterComps(Tail(segs))

\* the examples of segs (which starts with an example segment, or is empty):
\* each example segment with the complement segments that follow it
RECURSIVE GroupExamples(_)
GroupExamples(segs) ==
    IF segs = << >> THEN << >>
    ELSE <<[sentence    |-> Head(segs)[2],
            complements |-> LeadingComps(Tail(segs))]>>
             \o GroupExamples(AfterComps(Tail(segs)))

\* the Field the parts of a line stand for
FieldOf(f) ==
    [ident       |-> f.ident,
     explanation |-> [body |-> f.body, complements |-> LeadingComps(f.segs)],
     examples    |-> GroupExamples(AfterComps(f.segs))]

Count(t, c) == Cardinality({i \in 1..Len(t) : t[i] = c})

\* the separator occurs in t at or after position i
SepFrom(t, i) == \E j \in i..Len(t) : SepAt(t, j)

NoLeadingMarker(t) == t = << >> \/ t[1] # EntryMarker

\* no separator after a marker and a headword of at least one character
NoSeparator(t) == ~SepFrom(t, 3)

\* nothing but the end of the line or a marker after every separator
NoExplanation(t) ==
    \A j \in 1..Len(t) :
        SepAt(t, j) => (j + 3 > Len(t) \/ ~NotMarker(t[j + 3]))

RECURSIVE ExampleComplements(_)
ExampleComplements(exs) ==
    IF exs = << >> THEN 0
    ELSE Len(Head(exs).complements) + ExampleComplements(Tail(exs))

C8_CountsMatchMarkers ==
    (pc = "parsed" /\ parsed.ok) =>
        /\ Len(parsed.field.examples) = Count(line, EntryMarker) - 1
        /\ Len(parsed.field.explanation.complements)
               + ExampleComplements(parsed.field.examples)
             = Count(line, CompMarker)

(***************************************************************************)
(* The claims about parse, the snapshot and the lookup                     *)
(***************************************************************************)
\* what parse_field returns for the lines of the corpus
Results == [i \in 1..Len(lines(text)) |-> parse_field(lines(text)[i])]

\* the number of elements of the sequence s that are x
Times(s, x) == Cardinality({i \in 1..Len(s) : s[i] = x})

\* the Fields of the results rs whose headword is h, in input order
FieldsOf(rs, h) ==
    LET at == SelectSeq([i \in 1..Len(rs) |-> i], LAMBDA i : rs[i].key = h)
    IN  [j \in 1..Len(at) |-> rs[at[j]].field]

\* C1: after parse succeeds the groups are a partition by headword: the keys
\* are the headwords of the corpus, one pair each, every group id is a
\* position of fields, no two keys share a group, there are as many groups as
\* headwords, and the group of a headword holds one Field per line with that
\* headword and nothing else.
C1_GroupsPartitionByHeadword ==
    dict # << >> =>
        LET d  == dict[1]
            rs == Results
            hs == {rs[i].key : i \in 1..Len(rs)}
        IN  /\ {d.keys[j][1] : j \in 1..Len(d.keys)} = {Utf8(h) : h \in hs}
            /\ Len(d.keys) = Cardinality(hs)
            /\ Len(d.fields) = Cardinality(hs)
            /\ \A j \in 1..Len(d.keys) : d.keys[j][2] + 1 \in 1..Len(d.fields)
            /\ \A j, k \in 1..Len(d.keys) :
                   d.keys[j][2] = d.keys[k][2] => j = k
            /\ \A h \in hs : \A j \in 1..Len(d.keys) :
                   d.keys[j][1] = Utf8(h) =>
                       LET g  == d.fields[d.keys[j][2] + 1]
                           fs == FieldsOf(rs, h)
                       IN  /\ Len(g) = Len(fs)
                           /\ \A i \in 1..Len(g) :
                                  Times(g, g[i]) = Times(fs, g[i])

\* a Dict of two headwords, one of them on two lines that are not next to
\* each other
C1_Witness ==
    /\ dict # << >>
    /\ Len(dict[1].fields) = 2
    /\ Len(Results) = 3
    /\ Results[1].key = Results[3].key
    /\ Results[1].key # Results[2].key

\* the pairs (headword, group) of a Dict in key order
kv_vec(d) ==
    [j \in 1..Len(d.keys) |-> <<d.keys[j][1], d.fields[d.keys[j][2] + 1]>>]

\* C3: deserializing the bytes serialize produced gives a Dict with the same
\* headwords in the same order and, for each headword, the same Fields in
\* the same order.
C3_RoundTrip ==
    (pc = "loaded" /\ ~damaged) =>
        /\ loaded.kind = "Ok"
        /\ kv_vec(loaded.dict) = kv_vec(dict[1])

\* a Dict of two headwords, one with an ident, one with an example that has a
\* complement, went through the snapshot
C3_Witness ==
    /\ pc = "loaded" /\ ~damaged /\ loaded.kind = "Ok"
    /\ Len(loaded.dict.keys) >= 2
    /\ \E g \in 1..Len(loaded.dict.fields) :
           \E i \in 1..Len(loaded.dict.fields[g]) :
               loaded.dict.fields[g][i].ident # << >>
    /\ \E g \in 1..Len(loaded.dict.fields) :
           \E i \in 1..Len(loaded.dict.fields[g]) :
               /\ loaded.dict.fields[g][i].examples # << >>
               /\ loaded.dict.fields[g][i].examples[1].complements # << >>

\* the Dict the lookup ran on
Searched == IF pc = "found" THEN dict[1] ELSE loaded.dict

\* C4: the lookup with edit budget 0 yields a match iff the word is a
\* headword of the Dict, and then exactly one, with that headword and the
\* group of that headword.
C4_LookupExact ==
    pc \in {"found", "found again"} =>
        LET d    == Searched
            hits == {j \in 1..Len(d.keys) : d.keys[j][1] = Utf8(word)}
        IN  /\ found.kind = "Ok"
            /\ hits = {} => found.matches = << >>
            /\ \A j \in hits :
                   found.matches = <<[item  |-> word,
                                      idx   |-> d.keys[j][2],
                                      group |-> d.fields[d.keys[j][2] + 1]]>>

\* a headword found among three, one of the others one edit away from it
C4_Witness ==
    /\ pc \in {"found", "found again"}
    /\ Len(Searched.keys) = 3
    /\ Len(found.matches) = 1
    /\ \E j \in 1..3 : Distance(word, FromUtf8(Searched.keys[j][1])[1]) = 1

\* C5: parse is all or nothing: with a rejected line it returns an error and
\* no Dict, the error of the first rejected line with that line's number;
\* with none it returns no error, and a Dict once the loop is over.
C5_AllOrNothing ==
    pc # "start" =>
        LET rs  == Results
            bad == Rejected(rs)
        IN  IF bad # {}
            THEN /\ pc = "failed"
                 /\ dict = << >>
                 /\ error = <<[kind    |-> "line",
                               line_no |-> Min(bad) - 1,
                               err     |-> rs[Min(bad)].err]>>
            ELSE /\ error = << >>
                 /\ pc # "failed"
                 /\ pc # "loop" => dict # << >>

\* two rejected lines after an accepted one
C5_Witness ==
    /\ pc = "failed"
    /\ Cardinality(Rejected(Results)) = 2
    /\ 1 \notin Rejected(Results)
    /\ error[1].line_no = 1

\* the snapshot cannot be read back: the keys are not there, or Map::new
\* refuses them, or the groups do not fit the buffer
Corrupt(b) ==
    \/ ~DecBytes(b, 1).ok
    \/ ~MapNew(DecBytes(b, 1).val).ok
    \/ ~DecFields(b, DecBytes(b, 1).next).ok

\* C7 as claimed: loading a snapshot whose keys are no valid automaton, or
\* whose groups do not fit the buffer, ends in an error value, never in a
\* panic and never in a Dict.
C7_CorruptSnapshotIsAnError ==
    (pc = "loaded" /\ Corrupt(bytes)) => loaded.kind = "Err"

\* C9: in every group the Fields are in non-decreasing structural order, and
\* equal Fields are in ascending line order.
C9_GroupsInStructuralOrder ==
    \A g \in 1..Len(fields) : \A i, j \in 1..Len(fields[g]) :
        i < j =>
            /\ CmpField(fields[g][i], fields[g][j]) # "Greater"
            /\ CmpField(fields[g][i], fields[g][j]) = "Equal"
                   => origins[g][i] < origins[g][j]

\* a group that is not in input order, and a group with two equal Fields
C9_Witness ==
    /\ dict # << >>
    /\ \E g \in 1..Len(fields) : \E i, j \in 1..Len(fields[g]) :
           i < j /\ origins[g][i] > origins[g][j]
    /\ \E g \in 1..Len(fields) : \E i, j \in 1..Len(fields[g]) :
           i < j /\ fields[g][i] = fields[g][j]

\* C10: every headword inserted into the builder is after every headword
\* inserted before it, its group id is the number of groups opened before it
\* (0, 1, 2, ... in headword order), and the insertion is never refused.
C10_InsertionsAscend ==
    /\ \A j, k \in 1..Len(map) :
           j < k => CmpBytes(map[j][1], map[k][1]) = "Less"
    /\ \A j \in 1..Len(map) : map[j][2] = j - 1
    /\ Len(fields) = Len(map)
    /\ \A e \in {error[i] : i \in 1..Len(error)} : e.kind # "insert"

\* three headwords inserted, from lines that were not in headword order
C10_Witness ==
    /\ Len(map) = 3
    /\ Len(Results) = 3
    /\ CmpString(Results[1].key, Results[2].key) = "Greater"

====
